---------------------------- MODULE Spec2Model ----------------------------
(***************************************************************************)
(* Model of src/js/animations.js, the scroll / pointer animation engine:   *)
(* scroll-reveal observers, counters, parallax, typing, hero reveal and    *)
(* the refreshAnimations re-scan.                                          *)
(*                                                                         *)
(* Text is a sequence of one-character strings.  A JavaScript number is a  *)
(* record [nan, num, den]: NaN, or the exact rational num/den in lowest    *)
(* terms with den > 0 (no floating-point rounding).  Time is in            *)
(* milliseconds.                                                           *)
(***************************************************************************)
EXTENDS Integers, Sequences, FiniteSets, TLC

(***************************************************************************)
(* Bounds of the model.                                                    *)
(***************************************************************************)
\* Calls of window.refreshAnimations explored.
MaxRefresh == 2
\* The clock stops advancing at this instant (ms).
MaxTime == 3000
\* Scroll events counted between two display frames.
MaxScrollsPerFrame == 3
\* Largest number of elements on a page.
MaxElems == 3
\* Clicks on copy buttons explored.
MaxClicks == 2
\* Submit events of the form explored.
MaxSubmits == 2
\* Clicks on FAQ questions explored.
MaxFaqClicks == 3

\* Amounts by which the clock advances in one step (ms).
TimeSteps == {250, 500}
\* Values window.pageYOffset takes.
ScrollOffsets == {0, 100, 200}

(***************************************************************************)
(* JavaScript numbers.                                                     *)
(***************************************************************************)
Abs(i) == IF i < 0 THEN -i ELSE i

\* Recursive helpers are functions as well.
GCD[a \in Nat, b \in Nat] == IF b = 0 THEN a ELSE GCD[b, a % b]

NaN == [nan |-> TRUE, num |-> 0, den |-> 1]

\* The rational n/d (d # 0), in lowest terms with a positive denominator.
Rat[n \in Int, d \in Int] ==
  LET g == GCD[Abs(n), Abs(d)]
      s == IF d < 0 THEN -1 ELSE 1
  IN  [nan |-> FALSE, num |-> s * (n \div g), den |-> s * (d \div g)]

Num(i) == Rat[i, 1]

\* The JavaScript numbers.  The operations on them are functions, so that
\* an operand is evaluated once however often the operation reads it.
JSNumber == [nan : BOOLEAN, num : Int, den : Int]

NumAdd[a \in JSNumber, b \in JSNumber] ==
  IF a.nan \/ b.nan THEN NaN ELSE Rat[a.num * b.den + b.num * a.den, a.den * b.den]

NumSub[a \in JSNumber, b \in JSNumber] ==
  IF a.nan \/ b.nan THEN NaN ELSE Rat[a.num * b.den - b.num * a.den, a.den * b.den]

NumMul[a \in JSNumber, b \in JSNumber] ==
  IF a.nan \/ b.nan THEN NaN ELSE Rat[a.num * b.num, a.den * b.den]

\* a / b for b # 0 (the engine never divides by zero: see CounterDuration).
NumDiv[a \in JSNumber, b \in JSNumber] ==
  IF a.nan \/ b.nan THEN NaN ELSE Rat[a.num * b.den, a.den * b.num]

NumLess[a \in JSNumber, b \in JSNumber] ==
  ~a.nan /\ ~b.nan /\ a.num * b.den < b.num * a.den

\* Math.min: NaN if either argument is NaN.
MathMin[a \in JSNumber, b \in JSNumber] ==
  IF a.nan \/ b.nan THEN NaN ELSE IF NumLess[b, a] THEN b ELSE a

\* Math.floor (\div rounds towards minus infinity for a positive divisor).
MathFloor[a \in JSNumber] == IF a.nan THEN NaN ELSE Num(a.num \div a.den)

\* Math.pow(a, 3)
MathPow3[a \in JSNumber] == NumMul[a, NumMul[a, a]]

\* ToBoolean of a number: NaN and 0 are falsy.
Falsy[a \in JSNumber] == a.nan \/ a.num = 0

\* The JavaScript expression  a || dflt  on numbers.
NumOr[a \in JSNumber, dflt \in JSNumber] == IF Falsy[a] THEN dflt ELSE a

(***************************************************************************)
(* Strings: parseInt, parseFloat, toLocaleString.                          *)
(***************************************************************************)
DigitChars == <<"0", "1", "2", "3", "4", "5", "6", "7", "8", "9">>

IsDigit(c) == \E i \in 1..10 : DigitChars[i] = c

DigitValue(c) == (CHOOSE i \in 1..10 : DigitChars[i] = c) - 1

\* Length of the longest prefix of s made of decimal digits.
LeadingDigits[s \in Seq(STRING)] ==
  IF s = <<>> \/ ~IsDigit(Head(s)) THEN 0 ELSE 1 + LeadingDigits[Tail(s)]

\* Value of the decimal numeral s (all digits), continuing from acc.
DigitsValue[s \in Seq(STRING), acc \in Nat] ==
  IF s = <<>> THEN acc ELSE DigitsValue[Tail(s), 10 * acc + DigitValue(Head(s))]

Pow10[k \in Nat] == IF k = 0 THEN 1 ELSE 10 * Pow10[k - 1]

HasSign(s) == s # <<>> /\ Head(s) \in {"-", "+"}

Unsigned(s) == IF HasSign(s) THEN Tail(s) ELSE s

Sign(s) == IF s # <<>> /\ Head(s) = "-" THEN -1 ELSE 1

\* parseInt(s, 10): optional sign, then the longest run of digits; NaN
\* when there is none.  An absent attribute (undefined) parses like "".
ParseInt[s \in Seq(STRING)] ==
  LET body == Unsigned(s)
      n    == LeadingDigits[body]
  IN  IF n = 0 THEN NaN
      ELSE Num(Sign(s) * DigitsValue[SubSeq(body, 1, n), 0])

\* parseFloat(s): optional sign, digits, optional "." and digits; NaN when
\* no digit is read.  (No exponent part: the attribute values modelled
\* have none.)
ParseFloat[s \in Seq(STRING)] ==
  LET body == Unsigned(s)
      n    == LeadingDigits[body]
      rest == SubSeq(body, n + 1, Len(body))
      frac == IF rest # <<>> /\ Head(rest) = "." THEN Tail(rest) ELSE <<>>
      m    == LeadingDigits[frac]
  IN  IF n + m = 0 THEN NaN
      ELSE Rat[Sign(s) * (DigitsValue[SubSeq(body, 1, n), 0] * Pow10[m]
                          + DigitsValue[SubSeq(frac, 1, m), 0]),
               Pow10[m]]

\* The decimal numeral of a natural number.
Digits[n \in Nat] ==
  IF n < 10 THEN <<DigitChars[n + 1]>>
  ELSE Digits[n \div 10] \o <<DigitChars[(n % 10) + 1]>>

\* A numeral with a "," before every group of three trailing digits.
Grouped[ds \in Seq(STRING)] ==
  IF Len(ds) <= 3 THEN ds
  ELSE Grouped[SubSeq(ds, 1, Len(ds) - 3)] \o <<",">>
       \o SubSeq(ds, Len(ds) - 2, Len(ds))

\* Number.prototype.toLocaleString() of an integer or NaN (en-US grouping).
ToLocaleString[a \in JSNumber] ==
  IF a.nan THEN <<"N", "a", "N">>
  ELSE (IF a.num < 0 THEN <<"-">> ELSE <<>>) \o Grouped[Digits[Abs(a.num)]]

(***************************************************************************)
(* The document.  A page is a sequence of elements in document order; an   *)
(* element is [classes, hero, attrs, text]: its class names other than     *)
(* 'animated', whether it is a descendant of .hero, its data-* attributes  *)
(* as a set of <<name, value>> pairs, and its text in the markup.          *)
(***************************************************************************)
El(classes, hero, attrs, text) ==
  [classes |-> classes, hero |-> hero, attrs |-> attrs, text |-> text]

HasAttr(el, name) == \E p \in el.attrs : p[1] = name

\* el.dataset.<name>; undefined is modelled as "", which parseInt and
\* parseFloat turn into NaN and  || ''  into '' just the same.
Dataset(el, name) ==
  IF HasAttr(el, name) THEN (CHOOSE p \in el.attrs : p[1] = name)[2] ELSE <<>>

RevealPage ==
  << El({"fade-in"}, FALSE, {}, <<>>),
     El({"fade-in-up"}, TRUE, {}, <<>>),
     El({"fade-out"}, TRUE, {}, <<>>) >>

\* data-counter with the data-suffix that goes with it.
CounterTargets ==
  { {<<"data-counter", <<"1", "5", "0", "0">>>>},
    {<<"data-counter", <<"7">>>>, <<"data-suffix", <<"+">>>>},
    {<<"data-counter", <<"a", "b", "c">>>>} }

DurationAttrs ==
  { {},
    {<<"data-duration", <<"1", "0", "0", "0">>>>},
    {<<"data-duration", <<"0">>>>},
    {<<"data-duration", <<"-", "1", "0", "0">>>>} }

CounterPages ==
  { << El({"stat"}, FALSE, t \cup d, <<"0">>) >> :
      t \in CounterTargets, d \in DurationAttrs }

\* A page whose counter has a duration that is not a number.
MalformedDurationPage ==
  << El({"stat"}, FALSE, {<<"data-counter", <<"7">>>>,
                          <<"data-duration", <<"s", "o", "o", "n">>>>}, <<"0">>) >>

\* A page with a hero reveal element and a counter.
MixedPage ==
  << El({"fade-in-up"}, TRUE, {}, <<>>),
     El({"stat"}, FALSE, {<<"data-counter", <<"7">>>>,
                          <<"data-duration", <<"1", "0", "0", "0">>>>}, <<"0">>) >>

ParallaxSpeeds ==
  { <<"0", ".", "5">>, <<"2">>, <<"0">>, <<"f", "a", "s", "t">>, <<>> }

ParallaxPages ==
  { << El({"bg"}, FALSE, {<<"data-parallax", v>>}, <<>>) >> : v \in ParallaxSpeeds }
  \cup { << El({"bg"}, FALSE, {<<"data-parallax", <<"0", ".", "5">>>>}, <<>>),
            El({"fg"}, FALSE, {<<"data-parallax", <<"2">>>>}, <<>>) >> }

TypingPages ==
  { << El({"tagline"}, FALSE, {<<"data-typing", <<"H", "i">>>>} \cup sp \cup dl,
          <<"H", "i">>) >> :
      sp \in { {}, {<<"data-speed", <<"1", "0", "0">>>>} },
      dl \in { {}, {<<"data-delay", <<"2", "0", "0">>>>} } }

PointerPage ==
  << El({"card"}, FALSE, {<<"data-tilt", <<>>>>}, <<>>),
     El({"btn"}, FALSE, {<<"data-magnetic", <<>>>>}, <<>>) >>

\* A page with two copy-to-clipboard buttons.
CopyPage ==
  << El({"btn"}, FALSE, {<<"data-copy", <<"a", "@", "b">>>>}, <<"C", "o", "p", "y">>),
     El({"btn"}, FALSE, {<<"data-copy", <<"4", "2">>>>}, <<"C", "o", "p", "y">>) >>

\* A page with a form[data-form]: a required text field, an e-mail field, a
\* submit button and the two message elements.
FormPage == << El({"contact"}, FALSE, {<<"data-form", <<>>>>}, <<>>) >>

\* The fields of the form, those with the required attribute, and the one
\* of type email.
FieldNames == {"name", "email"}

RequiredFields == {"name"}

EmailField == "email"

\* What the user may type into a field.
FieldInputs ==
  { <<>>, <<" ">>, <<"A">>, <<"a", "@", "b">>, <<"a", "@", "b", ".", "c">>,
    <<"a", " ", "@", "b", ".", "c">> }

\* The content of the submit button: textContent reads its text.
Label(spinner, text) == [spinner |-> spinner, text |-> text]

\* A page whose one element has both pointer effects.
TiltMagneticPage ==
  << El({"card"}, FALSE, {<<"data-tilt", <<>>>>, <<"data-magnetic", <<>>>>}, <<>>) >>

\* Pages with three FAQ items, none or one of them open in the markup.
FaqPage(open) ==
  [ e \in 1..3 |->
      El(IF e = open THEN {"faq-item", "active"} ELSE {"faq-item"}, FALSE, {}, <<>>) ]

FaqPages == { FaqPage(open) : open \in 0..3 }

Pages ==
  {RevealPage, MixedPage, MalformedDurationPage, PointerPage, TiltMagneticPage,
   CopyPage, FormPage} \cup CounterPages
  \cup ParallaxPages \cup TypingPages \cup FaqPages

ElemIds == 1..MaxElems

(***************************************************************************)
(* State.                                                                  *)
(***************************************************************************)
VARIABLES
  page,                 \* the document (fixed after load)
  prefersReducedMotion, \* matchMedia(...).matches, read once at script start
  phase,                \* "loading" until init() has run, then "ready"
  now,                  \* the monotonic clock, performance.now()
  animated,             \* elements whose classList contains 'animated'
  numObservers,         \* scroll-reveal IntersectionObservers constructed
  observing,            \* <<o, e>>: observer o is observing element e
  observed,             \* <<o, e>>: o.observe(e) has been called (history)
  refreshCalls,         \* calls of refreshAnimations so far
  counterObservers,     \* counter IntersectionObservers constructed
  counterObserving,     \* elements the counter observer is observing
  rafQueue,             \* callbacks given to requestAnimationFrame, in order
  textContent,          \* el.textContent of every element
  shown,                \* last number a counter loop wrote to each element
  parallaxElements,     \* elements captured by initParallax's listener
  ticking,              \* initParallax's latch
  pageYOffset,          \* window.pageYOffset
  scrollPending,        \* a scroll event is waiting to be dispatched
  scrollsThisFrame,     \* scroll events handled since the last frame (history)
  transform,            \* el.style.transform of every element
  timers,               \* pending setTimeout callbacks, in order of the calls
  visible,              \* elements with style.visibility = 'visible'
  tiltElements,         \* elements with initTiltEffect's listeners
  magneticElements,     \* elements with initMagneticEffect's listeners
  hasMatchMedia,        \* window.matchMedia exists in this browser
  pointerOver,          \* elements the mouse pointer is over
  typingStart,          \* when typing elements were cleared, -1 before (history)
  started,              \* counter loops started for each element (history)
  mainPhase,            \* "loading" until the site script's init() has run
  copyButtons,          \* elements with initCopyButtons' click listener
  copied,               \* elements whose classList contains 'copied'
  clipboardWrites,      \* buttons whose clipboard.writeText is unsettled, in order
  clicks,               \* clicks on copy buttons so far
  formListening,        \* the form has initForms' submit listener
  fieldValue,           \* the value of each field of the form
  fieldError,           \* fields whose classList contains 'error'
  submitDisabled,       \* submitBtn.disabled
  submitLabel,          \* content of the submit button
  fetches,              \* originalText of each submission awaiting fetch, in order
  requestsSent,         \* calls of fetch so far (history)
  submits,              \* submit events so far
  formHidden,           \* form.style.display = 'none'
  errorMessage,         \* what the .form-error-message element displays
  faqItems,             \* .faq-item elements whose question has initFAQ's listener
  active,               \* elements whose classList contains 'active'
  faqClicks,            \* clicks on FAQ questions so far
  lastClicked           \* the item whose question was clicked last, 0 before (history)

\* The state of the site script (navigation, forms, utilities).
copyVars == << copyButtons, copied, clipboardWrites, clicks >>

formVars ==
  << formListening, fieldValue, fieldError, submitDisabled, submitLabel, fetches,
     requestsSent, submits, formHidden, errorMessage >>

faqVars == << faqItems, active, faqClicks, lastClicked >>

siteVars == << mainPhase, copyVars, formVars, faqVars >>

\* The state of the animation engine that the site script leaves alone.
engineVars ==
  << page, prefersReducedMotion, phase, animated, numObservers, observing,
     observed, refreshCalls, counterObservers, counterObserving, rafQueue, shown,
     parallaxElements, ticking, pageYOffset, scrollPending, scrollsThisFrame,
     transform, visible, tiltElements, magneticElements, hasMatchMedia,
     pointerOver, typingStart, started >>

vars ==
  << page, prefersReducedMotion, phase, now, animated, numObservers, observing,
     observed, refreshCalls, counterObservers, counterObserving, rafQueue,
     textContent, shown, parallaxElements, ticking, pageYOffset, scrollPending,
     scrollsThisFrame, transform, timers, visible, tiltElements,
     magneticElements, hasMatchMedia, pointerOver, typingStart, started,
     siteVars >>

Elems == DOMAIN page

(***************************************************************************)
(* Selectors.                                                              *)
(***************************************************************************)
\* config.animationClasses
animationClasses ==
  { "animate", "fade-in", "fade-in-up", "fade-in-down", "fade-in-left",
    "fade-in-right", "scale-in", "zoom-in", "blur-in", "stagger-children" }

\* The class names of the model that contain the given substring.
ClassesContaining(sub) ==
  CASE sub = "fade-"  -> { "fade-in", "fade-in-up", "fade-in-down", "fade-in-left",
                           "fade-in-right", "fade-out" }
    [] sub = "scale-" -> { "scale-in" }
    [] sub = "zoom-"  -> { "zoom-in" }

\* [class*="sub"]
ClassAttrContains(el, sub) == el.classes \cap ClassesContaining(sub) # {}

\* One of  .cls:not(.animated)  for cls in config.animationClasses.
MatchesAnimationSelectorAny(el, isAnimated) ==
  el.classes \cap animationClasses # {}

MatchesAnimationSelector(el, isAnimated) ==
  el.classes \cap animationClasses # {} /\ ~isAnimated

\* [class*="fade-"], [class*="scale-"], [class*="zoom-"], .animate, .blur-in,
\* .stagger-children
MatchesReducedMotionSelector(el) ==
  \/ ClassAttrContains(el, "fade-")
  \/ ClassAttrContains(el, "scale-")
  \/ ClassAttrContains(el, "zoom-")
  \/ el.classes \cap {"animate", "blur-in", "stagger-children"} # {}

\* .hero [class*="fade-"], .hero .animate
MatchesHeroSelector(el) ==
  el.hero /\ (ClassAttrContains(el, "fade-") \/ "animate" \in el.classes)

\* classList.add('animated') on the class lists of the page.
ClassListToggle(classLists, e) ==
  IF e \in classLists THEN classLists \ {e} ELSE classLists \cup {e}

ClassListAdd(classLists, e) == classLists \cup {e}

(***************************************************************************)
(* initScrollAnimations                                                    *)
(***************************************************************************)
\* The result of initScrollAnimations on the scroll-reveal state
\* st = [animated, numObservers, observing, observed].
InitScrollAnimations(st) ==
  IF prefersReducedMotion
  THEN [st EXCEPT !.animated =
          st.animated \cup { e \in Elems : MatchesReducedMotionSelector(page[e]) }]
  ELSE LET o       == st.numObservers + 1
           targets == { e \in Elems :
                          MatchesAnimationSelector(page[e], e \in st.animated) }
       IN  [st EXCEPT !.numObservers = o,
                      !.observing = st.observing \cup { <<o, e>> : e \in targets },
                      !.observed = st.observed \cup { <<o, e>> : e \in targets }]

ScrollState ==
  [animated |-> animated, numObservers |-> numObservers,
   observing |-> observing, observed |-> observed]

(***************************************************************************)
(* Timers and frame callbacks.                                             *)
(***************************************************************************)
\* A pending setTimeout(fn, delay) made at time t.  el, index and text are
\* the variables the callback closes over (0 or '' when it has none).
Timer(fn, el, index, t, delay) ==
  [fn |-> fn, el |-> el, index |-> index, due |-> t + delay, text |-> <<>>]

\* Timers run in the order of their due times, and in the order of the
\* setTimeout calls when these are equal.
TimerReady(i) ==
  /\ i \in DOMAIN timers
  /\ timers[i].due <= now
  /\ \A j \in DOMAIN timers :
       j # i => ~( \/ timers[j].due < timers[i].due
                   \/ timers[j].due = timers[i].due /\ j < i )

RemoveAt(q, i) == SubSeq(q, 1, i - 1) \o SubSeq(q, i + 1, Len(q))

\* A requestAnimationFrame callback: updateParallax, or the update closure
\* of animateCounter(el, target, duration, suffix) begun at startTime.
ParallaxCallback ==
  [fn |-> "updateParallax", el |-> 0, target |-> NaN, duration |-> NaN,
   suffix |-> <<>>, startTime |-> 0]

UpdateCallback(el, target, duration, suffix, startTime) ==
  [fn |-> "update", el |-> el, target |-> target, duration |-> duration,
   suffix |-> suffix, startTime |-> startTime]

(***************************************************************************)
(* initHeroReveal                                                          *)
(***************************************************************************)
\* document.querySelectorAll('.hero [class*="fade-"], .hero .animate')
heroElements == { e \in Elems : MatchesHeroSelector(page[e]) }

\* Position of e in the NodeList heroElements (document order, from 0).
HeroIndex(e) == Cardinality({ h \in heroElements : h < e })

RECURSIVE HeroTimers(_, _)
\* The setTimeout calls of heroElements.forEach from position k on.
HeroTimers(k, t) ==
  IF k >= Cardinality(heroElements) THEN <<>>
  ELSE LET e == CHOOSE h \in heroElements : HeroIndex(h) = k
       IN  <<Timer("heroReveal", e, 0, t, 100 + (k * 100))>> \o HeroTimers(k + 1, t)

\* The result of initHeroReveal on st = [animated, timers].
InitHeroReveal(st) ==
  IF prefersReducedMotion
  THEN [st EXCEPT !.animated = st.animated \cup heroElements]
  ELSE [st EXCEPT !.timers = st.timers \o HeroTimers(0, now)]

(***************************************************************************)
(* initParallax, initCounters, initTiltEffect, initMagneticEffect          *)
(***************************************************************************)
\* document.querySelectorAll('[data-parallax]') and the like.
WithAttr(name) == { e \in Elems : HasAttr(page[e], name) }

\* The elements whose scroll listener initParallax installs ({}: none).
InitParallax ==
  IF WithAttr("data-parallax") = {} \/ prefersReducedMotion THEN {}
  ELSE WithAttr("data-parallax")

\* The elements initCounters gives to a new counterObserver ({}: it
\* returned before constructing one).
InitCounters == WithAttr("data-counter")

InitTiltEffect ==
  IF WithAttr("data-tilt") = {} \/ prefersReducedMotion THEN {}
  ELSE WithAttr("data-tilt")

InitMagneticEffect ==
  IF WithAttr("data-magnetic") = {} \/ prefersReducedMotion THEN {}
  ELSE WithAttr("data-magnetic")

(***************************************************************************)
(* The initial state: the script has run, init() has not.                  *)
(***************************************************************************)
NoTransform == [fn |-> "none", px |-> Num(0)]

TranslateY(offset) == [fn |-> "translateY", px |-> offset]

NotShown == [written |-> FALSE, value |-> NaN]

Shown(v) == [written |-> TRUE, value |-> v]

\* window.matchMedia(...).matches at script start.  Without matchMedia the
\* call throws, the script stops there, and nothing below it ever runs.
Init ==
  /\ page \in Pages
  /\ hasMatchMedia \in BOOLEAN
  /\ prefersReducedMotion \in (IF hasMatchMedia THEN BOOLEAN ELSE {FALSE})
  /\ phase = (IF hasMatchMedia THEN "loading" ELSE "threw")
  /\ mainPhase = (IF hasMatchMedia THEN "loading" ELSE "threw")
  /\ pointerOver = {}
  /\ typingStart = -1
  /\ started = [e \in DOMAIN page |-> 0]
  /\ copyButtons = {}
  /\ copied = {}
  /\ clipboardWrites = <<>>
  /\ clicks = 0
  /\ formListening = FALSE
  /\ fieldValue = [f \in FieldNames |-> <<>>]
  /\ fieldError = {}
  /\ submitDisabled = FALSE
  /\ submitLabel = Label(FALSE, "Send")
  /\ fetches = <<>>
  /\ requestsSent = 0
  /\ submits = 0
  /\ formHidden = FALSE
  /\ errorMessage = ""
  /\ faqItems = {}
  /\ active = { e \in DOMAIN page : "active" \in page[e].classes }
  /\ faqClicks = 0
  /\ lastClicked = 0
  /\ now = 0
  /\ animated = {}
  /\ numObservers = 0
  /\ observing = {}
  /\ observed = {}
  /\ refreshCalls = 0
  /\ counterObservers = 0
  /\ counterObserving = {}
  /\ rafQueue = <<>>
  /\ textContent = [e \in DOMAIN page |-> page[e].text]
  /\ shown = [e \in DOMAIN page |-> NotShown]
  /\ parallaxElements = {}
  /\ ticking = FALSE
  /\ pageYOffset = 0
  /\ scrollPending = FALSE
  /\ scrollsThisFrame = 0
  /\ transform = [e \in DOMAIN page |-> NoTransform]
  /\ timers = <<>>
  /\ visible = {}
  /\ tiltElements = {}
  /\ magneticElements = {}

(***************************************************************************)
(* init() and refreshAnimations()                                          *)
(***************************************************************************)
\* init(), run once when the DOM is ready.
init ==
  /\ phase = "loading"
  /\ phase' = "ready"
  /\ LET scroll == InitScrollAnimations(ScrollState)
         hero   == InitHeroReveal([animated |-> scroll.animated, timers |-> timers])
     IN  /\ animated' = hero.animated
         /\ numObservers' = scroll.numObservers
         /\ observing' = scroll.observing
         /\ observed' = scroll.observed
         /\ timers' = hero.timers \o <<Timer("initTypingEffect", 0, 0, now, 500)>>
  /\ parallaxElements' = InitParallax
  /\ counterObservers' = IF InitCounters = {} THEN counterObservers
                         ELSE counterObservers + 1
  /\ counterObserving' = InitCounters
  /\ tiltElements' = InitTiltEffect
  /\ magneticElements' = InitMagneticEffect
  /\ UNCHANGED << page, prefersReducedMotion, now, refreshCalls, rafQueue,
                  textContent, shown, ticking, pageYOffset, scrollPending,
                  scrollsThisFrame, transform, visible,
                  hasMatchMedia, pointerOver, typingStart, started, siteVars >>

\* window.refreshAnimations = refreshAnimations has been executed.
Exposed == phase # "threw"

\* window.refreshAnimations(), callable by the page at any time.
refreshAnimations ==
  /\ Exposed
  /\ refreshCalls < MaxRefresh
  /\ refreshCalls' = refreshCalls + 1
  /\ LET scroll == InitScrollAnimations(ScrollState)
     IN  /\ animated' = scroll.animated
         /\ numObservers' = scroll.numObservers
         /\ observing' = scroll.observing
         /\ observed' = scroll.observed
  /\ UNCHANGED << page, prefersReducedMotion, phase, now, counterObservers,
                  counterObserving, rafQueue, textContent, shown,
                  parallaxElements, ticking, pageYOffset, scrollPending,
                  scrollsThisFrame, transform, timers, visible, tiltElements,
                  magneticElements,
                  hasMatchMedia, pointerOver, typingStart, started, siteVars >>

(***************************************************************************)
(* Scroll reveal: the IntersectionObserver callback of                     *)
(* initScrollAnimations, called by the browser for a target the observer   *)
(* is observing (once after observe(), then whenever the target crosses    *)
(* the threshold either way).                                              *)
(***************************************************************************)
Intersect(o, e, isIntersecting) ==
  /\ <<o, e>> \in observing
  /\ IF isIntersecting
     THEN /\ animated' = ClassListAdd(animated, e)
          /\ observing' = observing \ {<<o, e>>}
     ELSE UNCHANGED << animated, observing >>
  /\ UNCHANGED << page, prefersReducedMotion, phase, now, numObservers, observed,
                  refreshCalls, counterObservers, counterObserving, rafQueue,
                  textContent, shown, parallaxElements, ticking, pageYOffset,
                  scrollPending, scrollsThisFrame, transform, timers, visible,
                  tiltElements, magneticElements,
                  hasMatchMedia, pointerOver, typingStart, started, siteVars >>

\* The callback of a hero stagger timer.
heroReveal(i) ==
  /\ TimerReady(i)
  /\ timers[i].fn = "heroReveal"
  /\ animated' = ClassListAdd(animated, timers[i].el)
  /\ timers' = RemoveAt(timers, i)
  /\ UNCHANGED << page, prefersReducedMotion, phase, now, numObservers, observing,
                  observed, refreshCalls, counterObservers, counterObserving,
                  rafQueue, textContent, shown, parallaxElements, ticking,
                  pageYOffset, scrollPending, scrollsThisFrame, transform,
                  visible, tiltElements, magneticElements,
                  hasMatchMedia, pointerOver, typingStart, started, siteVars >>

(***************************************************************************)
(* Counters.                                                               *)
(***************************************************************************)
\* parseInt(el.dataset.counter, 10)
CounterTarget(el) == ParseInt[Dataset(el, "data-counter")]

\* parseInt(el.dataset.duration, 10) || 2000
CounterDuration(el) == NumOr[ParseInt[Dataset(el, "data-duration")], Num(2000)]

\* el.dataset.suffix || ''
CounterSuffix(el) == Dataset(el, "data-suffix")

\* counterObserver.unobserve(el) on the set of observed elements.
UnobserveNothing(targets, e) == targets

Unobserve(targets, e) == targets \ {e}

\* The counterObserver callback for an observed counter element.  A loop is
\* started only while the clock can still run through its duration.
CounterIntersect(e, isIntersecting) ==
  /\ e \in counterObserving
  /\ IF isIntersecting
     THEN /\ now + Abs(CounterDuration(page[e]).num) <= MaxTime
          /\ rafQueue' = Append(rafQueue,
                UpdateCallback(e, CounterTarget(page[e]), CounterDuration(page[e]),
                               CounterSuffix(page[e]), now))
          /\ counterObserving' = Unobserve(counterObserving, e)
          /\ started' = [started EXCEPT ![e] = @ + 1]
     ELSE UNCHANGED << rafQueue, counterObserving, started >>
  /\ UNCHANGED << page, prefersReducedMotion, phase, now, animated, numObservers,
                  observing, observed, refreshCalls, counterObservers,
                  textContent, shown, parallaxElements, ticking, pageYOffset,
                  scrollPending, scrollsThisFrame, transform, timers, visible,
                  tiltElements, magneticElements,
                  hasMatchMedia, pointerOver, typingStart, siteVars >>

\* progress in update(currentTime)
Progress(cb, currentTime) ==
  MathMin[NumDiv[NumSub[Num(currentTime), Num(cb.startTime)], cb.duration], Num(1)]

\* easeOut in update
EaseOut(progress) == NumSub[Num(1), MathPow3[NumSub[Num(1), progress]]]

\* current in update (start is 0)
Current(cb, currentTime) ==
  MathFloor[NumAdd[Num(0),
                   NumMul[NumSub[cb.target, Num(0)], EaseOut(Progress(cb, currentTime))]]]

\* Whether update asks for another frame.
ReschedulesAlways(cb, currentTime) == TRUE

Reschedules(cb, currentTime) == NumLess[Progress(cb, currentTime), Num(1)]

\* update(currentTime) of the loop cb on the frame state
\* st = [textContent, shown, transform, ticking, rafQueue].
Update(cb, currentTime, st) ==
  LET current == Current(cb, currentTime)
  IN  [st EXCEPT
         !.textContent[cb.el] = ToLocaleString[current] \o cb.suffix,
         !.shown[cb.el] = Shown(current),
         !.rafQueue = IF Reschedules(cb, currentTime) THEN Append(@, cb) ELSE @]

(***************************************************************************)
(* Parallax.                                                               *)
(***************************************************************************)
\* parseFloat(el.dataset.parallax) || 0.5
ParallaxSpeed(el) == NumOr[ParseFloat[Dataset(el, "data-parallax")], Rat[1, 2]]

\* updateParallax() on the frame state st, forgetting to release the latch.
UpdateParallaxKeepLatch(st) ==
  [st EXCEPT !.transform =
               [e \in DOMAIN @ |->
                  IF e \in parallaxElements
                  THEN TranslateY(NumMul[Num(pageYOffset), ParallaxSpeed(page[e])])
                  ELSE @[e]]]

\* updateParallax() on the frame state st.
UpdateParallax(st) ==
  [st EXCEPT !.transform =
               [e \in DOMAIN @ |->
                  IF e \in parallaxElements
                  THEN TranslateY(NumMul[Num(pageYOffset), ParallaxSpeed(page[e])])
                  ELSE @[e]],
             !.ticking = FALSE]

\* The scroll listener's test before it asks for a frame.
LatchOpenAlways == TRUE

LatchOpen == ~ticking

\* The position changes; the browser will dispatch a scroll event.
ScrollTo(y) ==
  /\ y # pageYOffset
  /\ pageYOffset' = y
  /\ scrollPending' = TRUE
  /\ UNCHANGED << page, prefersReducedMotion, phase, now, animated, numObservers,
                  observing, observed, refreshCalls, counterObservers,
                  counterObserving, rafQueue, textContent, shown,
                  parallaxElements, ticking, scrollsThisFrame, transform, timers,
                  visible, tiltElements, magneticElements,
                  hasMatchMedia, pointerOver, typingStart, started, siteVars >>

\* The scroll event is dispatched: initParallax's listener runs if installed.
ScrollEvent ==
  /\ scrollPending
  /\ scrollsThisFrame < MaxScrollsPerFrame
  /\ scrollPending' = FALSE
  /\ IF parallaxElements # {}
     THEN /\ scrollsThisFrame' = scrollsThisFrame + 1
          /\ IF LatchOpen
             THEN /\ rafQueue' = Append(rafQueue, ParallaxCallback)
                  /\ ticking' = TRUE
             ELSE UNCHANGED << rafQueue, ticking >>
     ELSE UNCHANGED << rafQueue, ticking, scrollsThisFrame >>
  /\ UNCHANGED << page, prefersReducedMotion, phase, now, animated, numObservers,
                  observing, observed, refreshCalls, counterObservers,
                  counterObserving, textContent, shown, parallaxElements,
                  pageYOffset, transform, timers, visible, tiltElements,
                  magneticElements,
                  hasMatchMedia, pointerOver, typingStart, started, siteVars >>

(***************************************************************************)
(* A display frame: the browser runs the callbacks requested so far, in    *)
(* order, with the frame's timestamp; what they request runs next frame.   *)
(***************************************************************************)
RECURSIVE RunCallbacks(_, _, _)
RunCallbacks(queue, currentTime, st) ==
  IF queue = <<>> THEN st
  ELSE RunCallbacks(Tail(queue), currentTime,
         IF Head(queue).fn = "updateParallax" THEN UpdateParallax(st)
         ELSE Update(Head(queue), currentTime, st))

Frame ==
  /\ rafQueue # <<>>
  /\ LET st == RunCallbacks(rafQueue, now,
                 [textContent |-> textContent, shown |-> shown,
                  transform |-> transform, ticking |-> ticking,
                  rafQueue |-> <<>>])
     IN  /\ textContent' = st.textContent
         /\ shown' = st.shown
         /\ transform' = st.transform
         /\ ticking' = st.ticking
         /\ rafQueue' = st.rafQueue
  /\ scrollsThisFrame' = 0
  /\ UNCHANGED << page, prefersReducedMotion, phase, now, animated, numObservers,
                  observing, observed, refreshCalls, counterObservers,
                  counterObserving, parallaxElements, pageYOffset, scrollPending,
                  timers, visible, tiltElements, magneticElements,
                  hasMatchMedia, pointerOver, typingStart, started, siteVars >>

(***************************************************************************)
(* Tilt and magnetic effects.                                              *)
(***************************************************************************)
\* el.getBoundingClientRect(): every element is laid out in the same box.
Rect == [left |-> 10, top |-> 20, width |-> 200, height |-> 100]

\* Where a mouse event can be: the corners, edges and centre of the box.
ClientXs == {10, 110, 210}

ClientYs == {20, 70, 120}

\* perspective(1000px) rotateX(..deg) rotateY(..deg) scale3d(s, s, s)
Tilt(rotateX, rotateY, scale) ==
  [fn |-> "tilt", rotateX |-> rotateX, rotateY |-> rotateY, scale |-> scale]

\* translate(..px, ..px)
Translate(x, y) == [fn |-> "translate", x |-> x, y |-> y]

\* The transform the tilt mousemove listener writes for a mouse event at
\* (clientX, clientY).
TiltMouseMove(clientX, clientY) ==
  LET x       == NumSub[Num(clientX), Num(Rect.left)]
      y       == NumSub[Num(clientY), Num(Rect.top)]
      centerX == NumDiv[Num(Rect.width), Num(2)]
      centerY == NumDiv[Num(Rect.height), Num(2)]
      rotateX == NumDiv[NumSub[y, centerY], Num(20)]
      rotateY == NumDiv[NumSub[centerX, x], Num(20)]
  IN  Tilt(rotateX, rotateY, Rat[102, 100])

\* The transform the tilt mouseleave listener writes, and one that keeps
\* the hover scale.
TiltMouseLeaveScaled == Tilt(Num(0), Num(0), Rat[102, 100])

TiltMouseLeave == Tilt(Num(0), Num(0), Num(1))

\* The transform the magnetic mousemove listener writes.
MagneticMouseMove(clientX, clientY) ==
  LET x == NumSub[NumSub[Num(clientX), Num(Rect.left)], NumDiv[Num(Rect.width), Num(2)]]
      y == NumSub[NumSub[Num(clientY), Num(Rect.top)], NumDiv[Num(Rect.height), Num(2)]]
  IN  Translate(NumMul[x, Rat[2, 10]], NumMul[y, Rat[2, 10]])

\* The transform the magnetic mouseleave listener writes.
MagneticMouseLeave == Translate(Num(0), Num(0))

\* A mousemove event on e: its listeners run in the order they were added,
\* initTiltEffect's before initMagneticEffect's.
MouseMove(e, clientX, clientY) ==
  /\ e \in tiltElements \cup magneticElements
  /\ pointerOver' = pointerOver \cup {e}
  /\ transform' = [transform EXCEPT ![e] =
                     IF e \in magneticElements
                     THEN MagneticMouseMove(clientX, clientY)
                     ELSE TiltMouseMove(clientX, clientY)]
  /\ UNCHANGED << page, prefersReducedMotion, phase, now, animated, numObservers,
                  observing, observed, refreshCalls, counterObservers,
                  counterObserving, rafQueue, textContent, shown,
                  parallaxElements, ticking, pageYOffset, scrollPending,
                  scrollsThisFrame, timers, visible, tiltElements,
                  magneticElements, hasMatchMedia, typingStart, started,
                  siteVars >>

\* A mouseleave event on e, which the pointer was over.
MouseLeave(e) ==
  /\ e \in tiltElements \cup magneticElements
  /\ e \in pointerOver
  /\ pointerOver' = pointerOver \ {e}
  /\ transform' = [transform EXCEPT ![e] =
                     IF e \in magneticElements THEN MagneticMouseLeave
                     ELSE TiltMouseLeave]
  /\ UNCHANGED << page, prefersReducedMotion, phase, now, animated, numObservers,
                  observing, observed, refreshCalls, counterObservers,
                  counterObserving, rafQueue, textContent, shown,
                  parallaxElements, ticking, pageYOffset, scrollPending,
                  scrollsThisFrame, timers, visible, tiltElements,
                  magneticElements, hasMatchMedia, typingStart, started,
                  siteVars >>

(***************************************************************************)
(* Typing effect.                                                          *)
(***************************************************************************)
\* parseInt(el.dataset.speed, 10) || 50
TypingSpeed(el) == NumOr[ParseInt[Dataset(el, "data-speed")], Num(50)]

\* parseInt(el.dataset.delay, 10) || 0
TypingDelay(el) == NumOr[ParseInt[Dataset(el, "data-delay")], Num(0)]

\* The delay setTimeout uses for a number: negative ones count as 0.
TimeoutDelay(n) == IF n.nan \/ n.num < 0 THEN 0 ELSE n.num \div n.den

RECURSIVE TypingTimers(_, _)
\* The setTimeout calls of typingElements.forEach over the elements els.
TypingTimers(els, t) ==
  IF els = {} THEN <<>>
  ELSE LET e == CHOOSE x \in els : \A y \in els : x <= y
       IN  <<Timer("typeText", e, 0, t, TimeoutDelay(TypingDelay(page[e])))>>
           \o TypingTimers(els \ {e}, t)

\* The callback of init's settle timer: initTypingEffect().
initTypingEffect(i) ==
  /\ TimerReady(i)
  /\ timers[i].fn = "initTypingEffect"
  /\ textContent' = [e \in DOMAIN textContent |->
                       IF e \in WithAttr("data-typing") THEN <<>> ELSE textContent[e]]
  /\ visible' = visible \cup WithAttr("data-typing")
  /\ typingStart' = IF WithAttr("data-typing") = {} THEN typingStart ELSE now
  /\ timers' = RemoveAt(timers, i) \o TypingTimers(WithAttr("data-typing"), now)
  /\ UNCHANGED << page, prefersReducedMotion, phase, now, animated, numObservers,
                  observing, observed, refreshCalls, counterObservers,
                  counterObserving, rafQueue, shown, parallaxElements, ticking,
                  pageYOffset, scrollPending, scrollsThisFrame, transform,
                  tiltElements, magneticElements,
                  hasMatchMedia, pointerOver, started, siteVars >>

\* type() of typeText(el, text, speed) with its variable index, on
\* st = [textContent, timers].
Type(el, index, st) ==
  LET text == Dataset(page[el], "data-typing")
  IN  IF index < Len(text)
      THEN [st EXCEPT
              !.textContent[el] = @ \o <<text[index + 1]>>,
              !.timers = Append(@, Timer("type", el, index + 1, now,
                                         TimeoutDelay(TypingSpeed(page[el]))))]
      ELSE st

\* The callback of a start-delay timer (typeText: index = 0, then type())
\* or of a per-character timer (type()).
type(i) ==
  /\ TimerReady(i)
  /\ timers[i].fn \in {"typeText", "type"}
  /\ LET st == Type(timers[i].el, timers[i].index,
                    [textContent |-> textContent, timers |-> RemoveAt(timers, i)])
     IN  /\ textContent' = st.textContent
         /\ timers' = st.timers
  /\ UNCHANGED << page, prefersReducedMotion, phase, now, animated, numObservers,
                  observing, observed, refreshCalls, counterObservers,
                  counterObserving, rafQueue, shown, parallaxElements, ticking,
                  pageYOffset, scrollPending, scrollsThisFrame, transform,
                  visible, tiltElements, magneticElements,
                  hasMatchMedia, pointerOver, typingStart, started, siteVars >>

(***************************************************************************)
(* The site script: its init(), and the copy-to-clipboard buttons.         *)
(***************************************************************************)
\* init() of the site script, run once when the DOM is ready:
\* initFAQ, initForms and initCopyButtons attach their listeners.
initMain ==
  /\ mainPhase = "loading"
  /\ mainPhase' = "ready"
  /\ faqItems' = { e \in Elems : "faq-item" \in page[e].classes }
  /\ copyButtons' = WithAttr("data-copy")
  /\ formListening' = (WithAttr("data-form") # {})
  /\ UNCHANGED << engineVars, now, textContent, timers, copied, clipboardWrites,
                  clicks, fieldValue, fieldError, submitDisabled, submitLabel,
                  fetches, requestsSent, submits, formHidden, errorMessage,
                  active, faqClicks, lastClicked >>

(***************************************************************************)
(* The site script: the FAQ accordion.                                     *)
(***************************************************************************)
\* faqItems.forEach(otherItem => ... otherItem.classList.remove('active'))
\* for every otherItem !== item, on the set of active elements; and a loop
\* that closes nothing.
CloseNone(actives, item) == actives

CloseOthers(actives, item) == actives \ (faqItems \ {item})

\* item.classList.toggle('active', force)
ClassListToggleForce(actives, item, force) ==
  IF force THEN actives \cup {item} ELSE actives \ {item}

\* A click on the question of a FAQ item.
QuestionClick(item) ==
  /\ item \in faqItems
  /\ faqClicks < MaxFaqClicks
  /\ faqClicks' = faqClicks + 1
  /\ lastClicked' = item
  /\ LET isActive == item \in active
     IN  active' = ClassListToggleForce(CloseOthers(active, item), item, ~isActive)
  /\ UNCHANGED << engineVars, now, textContent, timers, mainPhase, copyVars,
                  formVars, faqItems >>

\* The label a copied button shows.
CopiedLabel == <<"C", "o", "p", "i", "e", "d", "!">>

\* The timer that puts originalText back after 2 s.
RestoreTimer(btn, originalText, t) ==
  [fn |-> "restore", el |-> btn, index |-> 0, due |-> t + 2000,
   text |-> originalText]

\* A click on a copy button: the listener calls clipboard.writeText and
\* waits for it.  Clicks are taken while the clock can still run the 2 s.
Click(btn) ==
  /\ btn \in copyButtons
  /\ clicks < MaxClicks
  /\ now + 2000 <= MaxTime
  /\ clicks' = clicks + 1
  /\ clipboardWrites' = Append(clipboardWrites, btn)
  /\ UNCHANGED << engineVars, now, textContent, timers, mainPhase, copyButtons,
                  copied, formVars, faqVars >>

\* clipboard.writeText settles and the listener resumes: after the await when
\* it was fulfilled, in the catch block when it was rejected.
ClipboardSettle(i, fulfilled) ==
  /\ i \in DOMAIN clipboardWrites
  /\ now + 2000 <= MaxTime
  /\ clipboardWrites' = RemoveAt(clipboardWrites, i)
  /\ LET btn == clipboardWrites[i]
     IN  IF fulfilled
         THEN /\ timers' = Append(timers, RestoreTimer(btn, textContent[btn], now))
              /\ textContent' = [textContent EXCEPT ![btn] = CopiedLabel]
              /\ copied' = copied \cup {btn}
         ELSE UNCHANGED << timers, textContent, copied >>
  /\ UNCHANGED << engineVars, now, mainPhase, copyButtons, clicks, formVars,
                  faqVars >>

\* The callback of a restore timer.
restore(i) ==
  /\ TimerReady(i)
  /\ timers[i].fn = "restore"
  /\ textContent' = [textContent EXCEPT ![timers[i].el] = timers[i].text]
  /\ copied' = copied \ {timers[i].el}
  /\ timers' = RemoveAt(timers, i)
  /\ UNCHANGED << engineVars, now, mainPhase, copyButtons, clipboardWrites,
                  clicks, formVars, faqVars >>

(***************************************************************************)
(* The site script: form submission.                                       *)
(***************************************************************************)
\* String.prototype.trim (the white space of the model is the blank).
TrimStart[s \in Seq(STRING)] ==
  IF s # <<>> /\ Head(s) = " " THEN TrimStart[Tail(s)] ELSE s

TrimEnd[s \in Seq(STRING)] ==
  IF s # <<>> /\ s[Len(s)] = " " THEN TrimEnd[SubSeq(s, 1, Len(s) - 1)] ELSE s

Trim(s) == TrimEnd[TrimStart[s]]

\* s matches [^\s@]+
NoSpaceNoAt(s) == s # <<>> /\ \A k \in DOMAIN s : s[k] \notin {" ", "@"}

\* /^[^\s@]+@[^\s@]+\.[^\s@]+$/.test(s)
EmailRegexTest(s) ==
  \E i \in DOMAIN s, j \in DOMAIN s :
    /\ i < j
    /\ s[i] = "@"
    /\ s[j] = "."
    /\ NoSpaceNoAt(SubSeq(s, 1, i - 1))
    /\ NoSpaceNoAt(SubSeq(s, i + 1, j - 1))
    /\ NoSpaceNoAt(SubSeq(s, j + 1, Len(s)))

\* The e-mail field has a value that fails the pattern.
EmailRejected(values) ==
  values[EmailField] # <<>> /\ ~EmailRegexTest(values[EmailField])

\* isValid after the two validation steps of handleFormSubmit.
IsValid(values) ==
  /\ \A f \in RequiredFields : Trim(values[f]) # <<>>
  /\ ~EmailRejected(values)

\* The fields carrying 'error' after validation, given those before.
ValidationErrors(values, errors) ==
  ((errors \ RequiredFields) \cup { f \in RequiredFields : Trim(values[f]) = <<>> })
  \cup (IF EmailRejected(values) THEN {EmailField} ELSE {})

\* The user edits a field of the visible form.
Input(f, v) ==
  /\ mainPhase = "ready"
  /\ ~formHidden
  /\ fieldValue[f] # v
  /\ fieldValue' = [fieldValue EXCEPT ![f] = v]
  /\ UNCHANGED << engineVars, now, textContent, timers, mainPhase, copyVars,
                  faqVars, formListening, fieldError, submitDisabled, submitLabel, fetches,
                  requestsSent, submits, formHidden, errorMessage >>

\* The label while a request is on its way:
\* '<span class="loading-spinner"></span> Sending...'
SendingLabel == Label(TRUE, " Sending...")

\* A submit event of the visible form (from any of its submit controls or
\* requestSubmit()): handleFormSubmit up to its await, or to its return
\* when validation fails.
Submit ==
  /\ formListening
  /\ ~formHidden
  /\ submits < MaxSubmits
  /\ submits' = submits + 1
  /\ fieldError' = ValidationErrors(fieldValue, fieldError)
  /\ IF ~IsValid(fieldValue)
     THEN /\ errorMessage' = "Please fill in all required fields correctly."
          /\ UNCHANGED << submitDisabled, submitLabel, fetches, requestsSent >>
     ELSE /\ submitDisabled' = TRUE
          /\ submitLabel' = SendingLabel
          /\ fetches' = Append(fetches, submitLabel.text)
          /\ requestsSent' = requestsSent + 1
          /\ UNCHANGED errorMessage
  /\ UNCHANGED << engineVars, now, textContent, timers, mainPhase, copyVars,
                  faqVars, formListening, fieldValue, formHidden >>

\* How a fetch can end: response.ok, another HTTP status, or a rejection.
FetchOutcomes == {"ok", "httpError", "networkFailure"}

\* The fetch of the i-th waiting submission settles; handleFormSubmit
\* resumes after the await and runs its try, catch and finally blocks.
FetchSettle(i, outcome) ==
  /\ i \in DOMAIN fetches
  /\ fetches' = RemoveAt(fetches, i)
  /\ IF outcome = "ok"
     THEN /\ fieldValue' = [f \in FieldNames |-> <<>>]
          /\ formHidden' = TRUE
          /\ UNCHANGED errorMessage
     ELSE /\ errorMessage' =
               "Something went wrong. Please try again or email us directly."
          /\ UNCHANGED << fieldValue, formHidden >>
  /\ submitDisabled' = FALSE
  /\ submitLabel' = Label(FALSE, fetches[i])
  /\ UNCHANGED << engineVars, now, textContent, timers, mainPhase, copyVars,
                  faqVars, formListening, fieldError, requestsSent, submits >>

(***************************************************************************)
(* Time.  The clock advances by a step, or up to the next timer; a timer   *)
(* runs at its due time, so the clock does not pass a pending timer.       *)
(***************************************************************************)
Tick(dt) ==
  /\ dt > 0
  /\ now + dt <= MaxTime
  /\ \A i \in DOMAIN timers : now + dt <= timers[i].due
  /\ now' = now + dt
  /\ UNCHANGED << page, prefersReducedMotion, phase, animated, numObservers,
                  observing, observed, refreshCalls, counterObservers,
                  counterObserving, rafQueue, textContent, shown,
                  parallaxElements, ticking, pageYOffset, scrollPending,
                  scrollsThisFrame, transform, timers, visible, tiltElements,
                  magneticElements,
                  hasMatchMedia, pointerOver, typingStart, started, siteVars >>

TickSteps == TimeSteps \cup { timers[i].due - now : i \in DOMAIN timers }

(***************************************************************************)
(* Specifications.                                                         *)
(***************************************************************************)
ObserverIds == 1..(MaxRefresh + 1)

TimerIds == 1..(MaxElems + 1)

\* The engine with everything the browser and the page can do to it.
Next ==
  \/ init
  \/ refreshAnimations
  \/ \E o \in ObserverIds, e \in ElemIds, b \in BOOLEAN : Intersect(o, e, b)
  \/ \E i \in TimerIds : heroReveal(i)
  \/ \E e \in ElemIds, b \in BOOLEAN : CounterIntersect(e, b)
  \/ \E y \in ScrollOffsets : ScrollTo(y)
  \/ ScrollEvent
  \/ Frame
  \/ \E i \in TimerIds : initTypingEffect(i)
  \/ \E i \in TimerIds : type(i)
  \/ \E dt \in TickSteps : Tick(dt)
  \/ \E e \in ElemIds, x \in ClientXs, y \in ClientYs : MouseMove(e, x, y)
  \/ \E e \in ElemIds : MouseLeave(e)
  \/ initMain
  \/ \E b \in ElemIds : Click(b)
  \/ \E i \in 1..MaxClicks, ok \in BOOLEAN : ClipboardSettle(i, ok)
  \/ \E i \in TimerIds : restore(i)
  \/ \E f \in FieldNames, v \in FieldInputs : Input(f, v)
  \/ Submit
  \/ \E i \in 1..MaxSubmits, outcome \in FetchOutcomes : FetchSettle(i, outcome)
  \/ \E item \in ElemIds : QuestionClick(item)

Spec == Init /\ [][Next]_vars

\* Startup alone, on every page.
LoadNext == init

LoadSpec == Init /\ [][LoadNext]_vars

\* Scroll reveal, hero reveal and the re-scan.
RevealInit == Init /\ page \in {RevealPage, MixedPage}

RevealNext ==
  \/ init
  \/ refreshAnimations
  \/ \E o \in ObserverIds, e \in ElemIds, b \in BOOLEAN : Intersect(o, e, b)
  \/ \E i \in TimerIds : heroReveal(i)
  \/ \E i \in TimerIds : initTypingEffect(i)
  \/ \E dt \in TickSteps : Tick(dt)

RevealSpec == RevealInit /\ [][RevealNext]_vars

\* Counters.  The browser keeps the clock, the timers and the display
\* frames going.
CounterInit ==
  Init /\ page \in CounterPages \cup {MixedPage, MalformedDurationPage}

CounterNext ==
  \/ init
  \/ \E e \in ElemIds, b \in BOOLEAN : CounterIntersect(e, b)
  \/ Frame
  \/ \E i \in TimerIds : heroReveal(i)
  \/ \E i \in TimerIds : initTypingEffect(i)
  \/ \E dt \in TickSteps : Tick(dt)

CounterSpec ==
  /\ CounterInit
  /\ [][CounterNext]_vars
  /\ WF_vars(Frame)
  /\ WF_vars(\E i \in TimerIds : heroReveal(i))
  /\ WF_vars(\E i \in TimerIds : initTypingEffect(i))
  /\ WF_vars(\E dt \in TickSteps : Tick(dt))

\* Parallax.  The browser runs a requested frame.
ParallaxInit == Init /\ page \in ParallaxPages

ParallaxNext ==
  \/ init
  \/ \E y \in ScrollOffsets : ScrollTo(y)
  \/ ScrollEvent
  \/ Frame

ParallaxSpec == ParallaxInit /\ [][ParallaxNext]_vars /\ WF_vars(Frame)

\* The pointer effects.
PointerInit == Init /\ page \in {PointerPage, TiltMagneticPage}

PointerNext ==
  \/ init
  \/ \E e \in ElemIds, x \in ClientXs, y \in ClientYs : MouseMove(e, x, y)
  \/ \E e \in ElemIds : MouseLeave(e)

PointerSpec == PointerInit /\ [][PointerNext]_vars

\* The copy-to-clipboard buttons.
CopyInit == Init /\ page = CopyPage

CopyNext ==
  \/ initMain
  \/ \E b \in ElemIds : Click(b)
  \/ \E i \in 1..MaxClicks, ok \in BOOLEAN : ClipboardSettle(i, ok)
  \/ \E i \in TimerIds : restore(i)
  \/ \E dt \in TickSteps : Tick(dt)

CopySpec == CopyInit /\ [][CopyNext]_vars

\* The FAQ accordion.
FaqInit == Init /\ page \in FaqPages

FaqNext ==
  \/ initMain
  \/ \E item \in ElemIds : QuestionClick(item)

FaqSpec == FaqInit /\ [][FaqNext]_vars

\* Form submission.
FormInit == Init /\ page = FormPage

FormNext ==
  \/ initMain
  \/ \E f \in FieldNames, v \in FieldInputs : Input(f, v)
  \/ Submit
  \/ \E i \in 1..MaxSubmits, outcome \in FetchOutcomes : FetchSettle(i, outcome)

FormSpec == FormInit /\ [][FormNext]_vars

\* The typing effect.  The browser keeps the clock and the timers going.
TypingInit == Init /\ page \in TypingPages

TypingNext ==
  \/ init
  \/ \E i \in TimerIds : initTypingEffect(i)
  \/ \E i \in TimerIds : type(i)
  \/ \E dt \in TickSteps : Tick(dt)

TypingSpec ==
  /\ TypingInit
  /\ [][TypingNext]_vars
  /\ WF_vars(\E i \in TimerIds : initTypingEffect(i))
  /\ WF_vars(\E i \in TimerIds : type(i))
  /\ WF_vars(\E dt \in TickSteps : Tick(dt))

(***************************************************************************)
(* Properties.                                                             *)
(***************************************************************************)
\* The element is scroll-reveal eligible: it has a class of
\* config.animationClasses.
Eligible(e) == e \in Elems /\ page[e].classes \cap animationClasses # {}

\* The observers with an active observation of e.
Observers(e) == { o \in ObserverIds : <<o, e>> \in observing }

\* A counter loop for e is waiting for its next frame.
LoopPending(e) ==
  \E i \in DOMAIN rafQueue : rafQueue[i].fn = "update" /\ rafQueue[i].el = e

\* Frame requests for updateParallax that are pending.
ParallaxPending == { i \in DOMAIN rafQueue : rafQueue[i].fn = "updateParallax" }

\* C1: a re-scan (and init's scan) never passes to observe() an element
\* that carries 'animated' when the scan runs.
C1_RescanSkipsAnimated ==
  [][\A o \in ObserverIds, e \in ElemIds :
       (<<o, e>> \in observed' /\ <<o, e>> \notin observed) => e \notin animated]_vars

\* C1 witness: the latest re-scan observed one eligible element and passed
\* over another that had been observed before and was already 'animated'.
C1_Witness ==
  /\ numObservers >= 2
  /\ \E e \in animated, f \in Elems :
       /\ Eligible(e)
       /\ <<1, e>> \in observed
       /\ <<numObservers, e>> \notin observed
       /\ <<numObservers, f>> \in observed

\* C2: every element has at most one active scroll-reveal observation.
C2_AtMostOneObservation ==
  \A e \in ElemIds : Cardinality(Observers(e)) <= 1

\* C3: the completion flag of an element never goes back from complete to
\* pending (so it becomes complete at most once).
C3_CompletionNeverReverts ==
  [][\A e \in ElemIds : e \in animated => e \in animated']_vars

\* C3 witness: a hero element that an observer callback marked and
\* released and whose stagger timer has run as well, still complete.
C3_Witness ==
  /\ phase = "ready"
  /\ ~prefersReducedMotion
  /\ \E e \in animated :
       /\ e \in heroElements
       /\ \A i \in DOMAIN timers : ~(timers[i].fn = "heroReveal" /\ timers[i].el = e)
       /\ \E o \in ObserverIds : <<o, e>> \in observed /\ <<o, e>> \notin observing

\* C4: with reduced motion, when init has returned every scroll-reveal
\* eligible element and every hero element is complete and no viewport
\* observer has been constructed.
C4_ReducedMotionCompleteNoObservers ==
  (prefersReducedMotion /\ phase = "ready") =>
    /\ \A e \in Elems : (Eligible(e) \/ e \in heroElements) => e \in animated
    /\ numObservers + counterObservers = 0

\* C5: with reduced motion no frame callback and no animation timer is ever
\* pending (init's settle timer apart) and no element has a transform.
C5_ReducedMotionNoScheduling ==
  prefersReducedMotion =>
    /\ rafQueue = <<>>
    /\ \A i \in DOMAIN timers : timers[i].fn = "initTypingEffect"
    /\ \A e \in Elems : transform[e] = NoTransform

\* C6: the integers a counter loop displays are at least 0, at most the
\* target, and never decrease from one frame to the next.
C6_CounterMonotone ==
  [][\A e \in ElemIds :
       (e \in Elems /\ shown'[e].written /\ ~shown'[e].value.nan) =>
         /\ 0 <= shown'[e].value.num
         /\ shown'[e].value.num <= CounterTarget(page[e]).num
         /\ shown[e].written => shown[e].value.num <= shown'[e].value.num]_vars

\* C7: a counter loop that has been started stops, and when it stops the
\* element shows exactly the target, formatted, with the suffix.
C7_CounterLoopTerminates ==
  /\ \A e \in ElemIds : LoopPending(e) ~> ~LoopPending(e)
  /\ [][\A e \in ElemIds :
          (LoopPending(e) /\ ~LoopPending(e)') =>
            textContent'[e] = ToLocaleString[CounterTarget(page[e])]
                              \o CounterSuffix(page[e])]_vars

\* C8: at most one updateParallax frame request is pending, and exactly one
\* once the listener has handled a scroll event since the last frame.
C8_OneParallaxFramePending ==
  /\ Cardinality(ParallaxPending) <= 1
  /\ scrollsThisFrame >= 1 => Cardinality(ParallaxPending) = 1

\* C8 witness: several scroll events handled since the last frame, one
\* request pending.
C8_Witness ==
  /\ scrollsThisFrame = MaxScrollsPerFrame
  /\ Cardinality(ParallaxPending) = 1

\* Every parallax element is translated by its speed times the current
\* scroll offset.
ParallaxApplied ==
  \A e \in parallaxElements :
    transform[e] = TranslateY(NumMul[Num(pageYOffset), ParallaxSpeed(page[e])])

\* updateParallax has run at least once.
ParallaxUpdated == \E e \in parallaxElements : transform[e].fn = "translateY"

\* C9: once the listener has asked for a frame, a frame update runs and
\* applies the scroll offset current at that frame; and whenever updates
\* have begun and no scroll event or frame is pending, the elements reflect
\* the current scroll offset.
C9_LatestScrollWins ==
  /\ ticking ~> (~ticking /\ ParallaxApplied)
  /\ []((ParallaxUpdated /\ ~ticking /\ ~scrollPending) => ParallaxApplied)

\* C9 witness: scrolling has stopped away from the top, nothing is pending,
\* and the elements reflect that offset.
C9_Witness ==
  /\ ParallaxUpdated
  /\ ~ticking
  /\ ~scrollPending
  /\ pageYOffset = 200
  /\ ParallaxApplied

\* The speed factor an element declares: the number in its data-parallax
\* attribute, 0.5 when the attribute holds no number.
DeclaredSpeed(el) ==
  IF ParseFloat[Dataset(el, "data-parallax")].nan THEN Rat[1, 2]
  ELSE ParseFloat[Dataset(el, "data-parallax")]

\* C10: a frame update leaves every parallax element translated by its
\* declared speed factor times the scroll offset read in that update.
C10_TranslationIsDeclaredSpeedTimesOffset ==
  [][(ticking /\ ~ticking') =>
       \A e \in parallaxElements :
         transform'[e] = TranslateY(NumMul[Num(pageYOffset), DeclaredSpeed(page[e])])]_vars

\* The elements with a typing effect, once initTypingEffect has cleared them.
TypingCleared ==
  IF typingStart >= 0 THEN { e \in Elems : HasAttr(page[e], "data-typing") } ELSE {}

\* The text a typing element declares.
DeclaredText(e) == Dataset(page[e], "data-typing")

\* A timer of the typing effect is pending for e.
TypingTimerPending(e) ==
  \E i \in DOMAIN timers : timers[i].fn \in {"typeText", "type"} /\ timers[i].el = e

\* C11: after a typing element has been cleared its content is a prefix of
\* the declared text; every change appends exactly the next character; and
\* once the content is the whole text no further tick is scheduled for it.
C11_TypingPrefixGrowth ==
  /\ [](\A e \in TypingCleared :
          /\ Len(textContent[e]) <= Len(DeclaredText(e))
          /\ textContent[e] = SubSeq(DeclaredText(e), 1, Len(textContent[e]))
          /\ Len(textContent[e]) = Len(DeclaredText(e)) => ~TypingTimerPending(e))
  /\ [][\A e \in TypingCleared :
          textContent'[e] # textContent[e] =>
            textContent'[e] = SubSeq(DeclaredText(e), 1, Len(textContent[e]) + 1)]_vars

\* Whole per-character intervals elapsed for e since its start delay ended.
IntervalsElapsed(e) ==
  LET begin == typingStart + TimeoutDelay(TypingDelay(page[e]))
  IN  IF now < begin THEN 0
      ELSE (now - begin) \div TimeoutDelay(TypingSpeed(page[e]))

\* No timer of the typing effect for e is due and still waiting to run.
TypingSettled(e) ==
  \A i \in DOMAIN timers :
    (timers[i].fn \in {"typeText", "type"} /\ timers[i].el = e) => now < timers[i].due

\* C12: a typing element shows k characters after k per-character intervals
\* counted from the end of its start delay (none before the first interval
\* has passed), and the whole text from then on.
C12_TypingTimeline ==
  \A e \in TypingCleared :
    TypingSettled(e) =>
      textContent[e] =
        SubSeq(DeclaredText(e), 1,
               IF IntervalsElapsed(e) < Len(DeclaredText(e))
               THEN IntervalsElapsed(e) ELSE Len(DeclaredText(e)))

\* The transform leaves the element as laid out: it has no rotation, unit
\* scale and no translation.
Neutral(t) ==
  \/ t.fn = "tilt" /\ t.rotateX = Num(0) /\ t.rotateY = Num(0) /\ t.scale = Num(1)
  \/ t.fn = "translate" /\ t.x = Num(0) /\ t.y = Num(0)

\* C13: from a pointer exit until the next pointer move, the transform of a
\* tilt or magnetic element is the neutral one, whatever moves came before.
C13_PointerExitResets ==
  /\ [][\A e \in ElemIds :
          (e \in pointerOver /\ e \notin pointerOver') => Neutral(transform'[e])]_vars
  /\ [](\A e \in tiltElements \cup magneticElements :
          (e \notin pointerOver /\ transform[e] # NoTransform) => Neutral(transform[e]))

\* C13 witness: the pointer has left the tilt element, which is neutral
\* again, while the magnetic element is still displaced under the pointer.
C13_Witness ==
  /\ \E e \in tiltElements \ pointerOver : transform[e] = TiltMouseLeave
  /\ \E e \in magneticElements \cap pointerOver :
       transform[e].fn = "translate" /\ transform[e].x # Num(0)

\* C14: without the media-query capability the script does not fail: the
\* preference counts as false, startup goes ahead and the re-scan entry
\* point is exposed.
C14_NoMatchMediaMeansMotionAllowed ==
  ~hasMatchMedia =>
    /\ phase \in {"loading", "ready"}
    /\ ~prefersReducedMotion
    /\ Exposed

\* The counter elements of the page.
Counters == { e \in Elems : HasAttr(page[e], "data-counter") }

\* The element's data-duration is missing or holds no number.
DurationMalformed(e) == ParseInt[Dataset(page[e], "data-duration")].nan

\* C15: a counter whose target is not a number keeps the text of the markup
\* (the animation never writes it); a loop whose duration is missing or not
\* a number runs with 2000 ms, and comes to an end.
C15_MalformedCounterDegrades ==
  /\ [](\A e \in Counters :
          CounterTarget(page[e]).nan => textContent[e] = page[e].text)
  /\ [](\A i \in DOMAIN rafQueue :
          (rafQueue[i].fn = "update" /\ DurationMalformed(rafQueue[i].el)) =>
            rafQueue[i].duration = Num(2000))
  /\ \A e \in ElemIds :
       (LoopPending(e) /\ DurationMalformed(e)) ~> ~LoopPending(e)

\* The hero elements that become complete in the step.
HeroCompleted == { e \in heroElements : e \notin animated /\ e \in animated' }

\* C16: with motion allowed, a hero element is not complete while its
\* stagger timer (due 100 + index * 100 ms after initHeroReveal) has yet to
\* come due; hero elements become complete one at a time, in index order.
C16_HeroStaggerOrder ==
  /\ [](\A i \in DOMAIN timers :
          (timers[i].fn = "heroReveal" /\ now < timers[i].due) =>
            timers[i].el \notin animated)
  /\ [][~prefersReducedMotion =>
          /\ Cardinality(HeroCompleted) <= 1
          /\ \A e \in HeroCompleted, f \in heroElements :
               HeroIndex(f) < HeroIndex(e) => f \in animated]_vars

\* The eligible elements that are not complete yet.
PendingEligible == { e \in Elems : Eligible(e) /\ e \notin animated }

\* C17: a complete element has no active scroll-reveal observation, and
\* there are no more active observations than eligible elements still
\* pending.
C17_ObservationsReleased ==
  /\ \A e \in animated : Observers(e) = {}
  /\ Cardinality(observing) <= Cardinality(PendingEligible)

\* The update callbacks waiting in the frame queue for e.
LoopsPending(e) ==
  { i \in DOMAIN rafQueue : rafQueue[i].fn = "update" /\ rafQueue[i].el = e }

\* C18: at most one counter loop is ever started for an element; once one
\* has been started the element is no longer observed, and never are two
\* loops writing its text.
C18_OneLoopPerCounter ==
  \A e \in Elems :
    /\ started[e] <= 1
    /\ started[e] >= 1 => e \notin counterObserving
    /\ Cardinality(LoopsPending(e)) <= 1

\* C18 witness: a counter whose one loop has run to its end.
C18_Witness ==
  \E e \in Counters :
    /\ started[e] = 1
    /\ shown[e].written
    /\ ~LoopPending(e)

\* Nothing is pending for the copy button: no writeText unsettled, no
\* restore timer waiting.
CopyQuiet(btn) ==
  /\ \A i \in DOMAIN clipboardWrites : clipboardWrites[i] # btn
  /\ \A i \in DOMAIN timers : ~(timers[i].fn = "restore" /\ timers[i].el = btn)

\* C19: once everything pending for a copy button has run, the button shows
\* the label of the markup and does not carry 'copied'.
C19_CopyLabelRestored ==
  \A btn \in copyButtons :
    CopyQuiet(btn) => (textContent[btn] = page[btn].text /\ btn \notin copied)

\* C20: when no submission is waiting for its fetch, the submit button is
\* enabled and shows the label it had before the first submission; and a
\* submit event that fails validation sends no request and does not
\* disable the button.
C20_SubmitButtonRestored ==
  /\ [](fetches = <<>> => (~submitDisabled /\ submitLabel = Label(FALSE, "Send")))
  /\ [][(submits' = submits + 1 /\ ~IsValid(fieldValue)) =>
          /\ requestsSent' = requestsSent
          /\ fetches' = fetches
          /\ submitDisabled' = submitDisabled]_vars

\* C21: at most one FAQ item is active; a click on the question of an
\* inactive item leaves exactly that item active, and a click on the
\* question of the active item leaves none active.
C21_AccordionOneActive ==
  /\ [](Cardinality(active) <= 1)
  /\ [][faqClicks' = faqClicks + 1 =>
          active' = (IF lastClicked' \in active THEN {} ELSE {lastClicked'})]_vars

\* C21 witness: an item was open in the markup, and after clicks on other
\* questions the item clicked last is the only one open.
C21_Witness ==
  /\ faqClicks >= 2
  /\ active = {lastClicked}
  /\ \E e \in faqItems : e # lastClicked /\ "active" \in page[e].classes

=============================================================================
